---- MODULE Spec2Model ----
(***************************************************************************)
(* we.math.TransformationMatrix (src/we/math/transformationmatrix.js):     *)
(* an object holding a 4x4 matrix in the field matrix_ and composing       *)
(* translations, scalings, rotations and a look-at transform onto it.      *)
(*                                                                         *)
(* Numbers are exact rationals <<n, d>> in lowest terms with d > 0, so     *)
(* the arithmetic is that of the reals; the rounding of IEEE doubles is    *)
(* not modelled.  A matrix is a sequence of rows, a row a sequence of      *)
(* numbers.  Matrix objects live in a heap and the fields of the instance  *)
(* hold references to them, so that aliasing is visible.                   *)
(***************************************************************************)
EXTENDS Integers, Sequences, FiniteSets, TLC

\* The longest sequence of method calls explored on one instance.
MaxCalls == 3

----------------------------------------------------------------------------
(* Exact rational arithmetic standing for JavaScript numbers.              *)

Abs(n) == IF n < 0 THEN -n ELSE n

RECURSIVE GCD(_, _)
GCD(a, b) == IF b = 0 THEN a ELSE GCD(b, a % b)

Q(n, d) ==
  LET g == GCD(Abs(n), Abs(d))
      sg == IF d < 0 THEN -1 ELSE 1
  IN  <<(sg * n) \div g, (sg * d) \div g>>

R(n) == <<n, 1>>

\* Sums over the least common denominator and products cancelled
\* crosswise, so that no intermediate value is larger than it has to be.
RAdd(p, q) ==
  IF p[1] = 0 THEN q ELSE IF q[1] = 0 THEN p
  ELSE LET g == GCD(p[2], q[2])
       IN  Q(p[1] * (q[2] \div g) + q[1] * (p[2] \div g), (p[2] \div g) * q[2])
RNeg(p) == <<-p[1], p[2]>>
RSub(p, q) == RAdd(p, RNeg(q))
RMul(p, q) ==
  IF p[1] = 0 \/ q[1] = 0 THEN <<0, 1>>
  ELSE LET g1 == GCD(Abs(p[1]), q[2])
           g2 == GCD(Abs(q[1]), p[2])
       IN  <<(p[1] \div g1) * (q[1] \div g2), (p[2] \div g2) * (q[2] \div g1)>>
RDiv(p, q) == IF q[1] < 0 THEN RMul(p, <<-q[2], -q[1]>>) ELSE RMul(p, <<q[2], q[1]>>)

\* Math.sqrt on the squares of rationals (the only arguments the model's
\* inputs produce).
ISqrt(n) == CHOOSE k \in 0..n : k * k = n
RSqrt(p) == <<ISqrt(p[1]), ISqrt(p[2])>>

----------------------------------------------------------------------------
(* goog.math.Matrix and goog.math.Vec3, the numeric library the class uses *)

\* goog.math.Matrix.createIdentityMatrix(n)
createIdentityMatrix(n) ==
  [i \in 1..n |-> [j \in 1..n |-> IF i = j THEN R(1) ELSE R(0)]]

RECURSIVE Dot(_, _, _, _, _)
Dot(A, B, i, j, k) ==
  IF k = 0 THEN R(0) ELSE RAdd(Dot(A, B, i, j, k - 1), RMul(A[i][k], B[k][j]))

\* goog.math.Matrix.prototype.multiply: a new matrix, this x m.
multiply(A, B) ==
  [i \in 1..Len(A) |-> [j \in 1..Len(B[1]) |-> Dot(A, B, i, j, Len(A[1]))]]

\* Determinant of a 3x3 matrix by cofactor expansion along the first row.
Det3(m) ==
  RAdd(RSub(RMul(m[1][1], RSub(RMul(m[2][2], m[3][3]), RMul(m[2][3], m[3][2]))),
            RMul(m[1][2], RSub(RMul(m[2][1], m[3][3]), RMul(m[2][3], m[3][1])))),
       RMul(m[1][3], RSub(RMul(m[2][1], m[3][2]), RMul(m[2][2], m[3][1]))))

\* 1-based successor and predecessor of an index in 1..3, cyclically.
Nx(i) == (i % 3) + 1
Pv(i) == ((i + 1) % 3) + 1

\* goog.math.Matrix.prototype.getInverse on a 3x3 matrix: the inverse, or
\* null, written << >>, when the matrix is not invertible.
getInverse(m) ==
  LET d == Det3(m) IN
  IF d[1] = 0 THEN << >>
  ELSE [i \in 1..3 |-> [j \in 1..3 |->
          RDiv(RSub(RMul(m[Nx(j)][Nx(i)], m[Pv(j)][Pv(i)]),
                    RMul(m[Nx(j)][Pv(i)], m[Pv(j)][Nx(i)])), d)]]

\* goog.math.Vec3: subtract, magnitude, normalize, cross.
VecSubtract(a, b) == <<RSub(a[1], b[1]), RSub(a[2], b[2]), RSub(a[3], b[3])>>
VecMagnitude(a) ==
  RSqrt(RAdd(RAdd(RMul(a[1], a[1]), RMul(a[2], a[2])), RMul(a[3], a[3])))
VecNormalize(a) ==
  LET s == RDiv(R(1), VecMagnitude(a))
  IN  <<RMul(a[1], s), RMul(a[2], s), RMul(a[3], s)>>
VecCross(a, b) ==
  <<RSub(RMul(a[2], b[3]), RMul(a[3], b[2])),
    RSub(RMul(a[3], b[1]), RMul(a[1], b[3])),
    RSub(RMul(a[1], b[2]), RMul(a[2], b[1]))>>

----------------------------------------------------------------------------
(* Inputs of the calls.                                                    *)

Zero == R(0)
One == R(1)

\* The angles passed to the rotations, named by their value in radians.
Angles == {"pi/2", "atan(4/3)"}

\* Math.cos and Math.sin on those angles.
MathCos(angle) == IF angle = "pi/2" THEN R(0) ELSE Q(3, 5)
MathSin(angle) == IF angle = "pi/2" THEN R(1) ELSE Q(4, 5)

Vec(a, b, c) == <<R(a), R(b), R(c)>>

TranslateArgs == {Vec(1, 2, 3), Vec(1, 0, 0)}
\* The last one makes the matrix singular.
ScaleArgs == {Vec(2, 3, 4), Vec(2, 2, 2), Vec(1, 0, 1)}
UnitAxes == {Vec(0, 1, 0), Vec(1, 0, 0), Vec(0, 0, 1)}
\* angle and axis of the general rotation: the unit axes, and a unit axis
\* that is none of them.
RotateArgs == {<<"atan(4/3)", Vec(0, 1, 0)>>, <<"pi/2", Vec(1, 0, 0)>>,
               <<"atan(4/3)", Vec(0, 0, 1)>>,
               <<"pi/2", <<Q(2, 3), Q(2, 3), Q(1, 3)>> >>}
\* eye, center, up of lookAt.
LookAtArgs == {<<Vec(5, 0, 0), Vec(0, 0, 0), Vec(0, 1, 0)>>,
               <<Vec(0, 0, 5), Vec(0, 0, 0), Vec(0, 1, 0)>>,
               <<Vec(3, 4, 0), Vec(0, 0, 0), Vec(0, 0, 1)>>}

----------------------------------------------------------------------------
(* The operation matrices the methods build, and the matrix each method   *)
(* computes from the matrix M held in matrix_.                             *)

\* A translation matrix with the translation in its last row, as a row-vector
\* convention has it.
translationMatrixInRow(x, y, z) ==
  << <<One, Zero, Zero, Zero>>,
     <<Zero, One, Zero, Zero>>,
     <<Zero, Zero, One, Zero>>,
     <<x, y, z, One>> >>

translationMatrix(x, y, z) ==
  << <<One, Zero, Zero, x>>,
     <<Zero, One, Zero, y>>,
     <<Zero, Zero, One, z>>,
     <<Zero, Zero, Zero, One>> >>

\* A translate that multiplies from the left: T x M.
translatedLeft(M, x, y, z) == multiply(translationMatrix(x, y, z), M)

translated(M, x, y, z) == multiply(M, translationMatrix(x, y, z))

scaleMatrix(x, y, z) ==
  << <<x, Zero, Zero, Zero>>,
     <<Zero, y, Zero, Zero>>,
     <<Zero, Zero, z, Zero>>,
     <<Zero, Zero, Zero, One>> >>

\* A scale that multiplies from the left: S x M.
scaledLeft(M, x, y, z) == multiply(scaleMatrix(x, y, z), M)

scaled(M, x, y, z) == multiply(M, scaleMatrix(x, y, z))

\* x * y * (1 - c) + z * s and its like: the cells of the general rotation.
Cell(p, q, c, t) == RAdd(RMul(RMul(p, q), RSub(One, c)), t)

rotationMatrix(c, s, x, y, z) ==
  << <<Cell(x, x, c, c), Cell(x, y, c, RNeg(RMul(z, s))), Cell(x, z, c, RMul(y, s)), Zero>>,
     <<Cell(y, x, c, RMul(z, s)), Cell(y, y, c, c), Cell(y, z, c, RNeg(RMul(x, s))), Zero>>,
     <<Cell(z, x, c, RNeg(RMul(y, s))), Cell(z, y, c, RMul(x, s)), Cell(z, z, c, c), Zero>>,
     <<Zero, Zero, Zero, One>> >>

rotated(M, angle, x, y, z) ==
  multiply(M, rotationMatrix(MathCos(angle), MathSin(angle), x, y, z))

\* A Y rotation with the signs of the sines exchanged: the rotation the
\* other way round.
rotation010MatrixClockwise(c, s) ==
  << <<c, Zero, RNeg(s), Zero>>,
     <<Zero, One, Zero, Zero>>,
     <<s, Zero, c, Zero>>,
     <<Zero, Zero, Zero, One>> >>

rotation010Matrix(c, s) ==
  << <<c, Zero, s, Zero>>,
     <<Zero, One, Zero, Zero>>,
     <<RNeg(s), Zero, c, Zero>>,
     <<Zero, Zero, Zero, One>> >>

rotated010(M, angle) ==
  multiply(M, rotation010Matrix(MathCos(angle), MathSin(angle)))

rotation100Matrix(c, s) ==
  << <<One, Zero, Zero, Zero>>,
     <<Zero, c, RNeg(s), Zero>>,
     <<Zero, s, c, Zero>>,
     <<Zero, Zero, Zero, One>> >>

rotated100(M, angle) ==
  multiply(M, rotation100Matrix(MathCos(angle), MathSin(angle)))

rotation001Matrix(c, s) ==
  << <<c, RNeg(s), Zero, Zero>>,
     <<s, c, Zero, Zero>>,
     <<Zero, Zero, One, Zero>>,
     <<Zero, Zero, Zero, One>> >>

rotated001(M, angle) ==
  multiply(M, rotation001Matrix(MathCos(angle), MathSin(angle)))

\* fw, side and the recomputed up of lookAt.
lookAtFw(eye, center) == VecNormalize(VecSubtract(center, eye))
lookAtSide(eye, center, up) == VecNormalize(VecCross(lookAtFw(eye, center), up))
lookAtUp(eye, center, up) ==
  VecCross(lookAtSide(eye, center, up), lookAtFw(eye, center))

orientationMatrix(eye, center, up) ==
  LET fw == lookAtFw(eye, center)
      side == lookAtSide(eye, center, up)
      up2 == lookAtUp(eye, center, up)
  IN  << <<side[1], side[2], side[3], Zero>>,
         <<up2[1], up2[2], up2[3], Zero>>,
         <<RNeg(fw[1]), RNeg(fw[2]), RNeg(fw[3]), Zero>>,
         <<Zero, Zero, Zero, One>> >>

\* What lookAt stores in the field named matrix (no underscore).
lookAtMatrix(M, eye, center, up) == multiply(M, orientationMatrix(eye, center, up))

\* What lookAt leaves in matrix_: its closing this.translate(-eye) reads
\* matrix_, which the assignment to matrix did not change.
lookedAt(M, eye, center, up) ==
  translated(M, RNeg(eye[1]), RNeg(eye[2]), RNeg(eye[3]))

\* A loadIdentity that leaves the matrix as it is.
loadedIdentityKept(M) == M

\* A loadIdentity that loads the 3x3 identity.
loadedIdentity3(M) == createIdentityMatrix(3)

\* What loadIdentity stores in matrix_, whatever M it held.
loadedIdentity(M) == createIdentityMatrix(4)

\* A copy loop with the indices of the read exchanged.
topLeft3Transposed(M) == [i \in 1..3 |-> [j \in 1..3 |-> M[j][i]]]

\* The 3x3 matrix getInverseMat3 fills cell by cell from matrix_.
topLeft3(M) == [i \in 1..3 |-> [j \in 1..3 |-> M[i][j]]]

inverseMat3(M) == getInverse(topLeft3(M))

----------------------------------------------------------------------------
(* The instance.                                                           *)

VARIABLES
  heap,      \* the matrix objects: reference |-> matrix
  nextId,    \* the reference the next new matrix object gets
  matrix_,   \* this.matrix_: a reference
  matrix,    \* this.matrix: << >> (undefined), or <<reference>> once lookAt ran
  handle,    \* <<the reference the caller's last getStandardMatrix returned>>,
             \* << >> before the first
  inverse,   \* what the caller's last getInverseMat3 returned, << >> before
             \* the first
  trace,     \* the calls made on the instance since construction, in order
  before,    \* the matrix matrix_ referred to when the last call began
  snapshot   \* the matrix handle referred to when it was returned, << >>
             \* before the first getStandardMatrix

vars == <<heap, nextId, matrix_, matrix, handle, inverse, trace, before, snapshot>>

\* The heap with a new object added, cut down to the objects still referenced.
Range(f) == {f[i] : i \in DOMAIN f}

Allocate(objs, live) ==
  [r \in (DOMAIN heap \cup DOMAIN objs) \cap live |->
     IF r \in DOMAIN objs THEN objs[r] ELSE heap[r]]

\* this.matrix_ = N, N a matrix newly created by the library.
assign_matrix_(N) ==
  /\ matrix_' = nextId
  /\ nextId' = nextId + 1
  /\ heap' = Allocate(nextId :> N, {nextId} \cup Range(matrix) \cup Range(handle))

Called(op, args) ==
  /\ Len(trace) < MaxCalls
  /\ trace' = Append(trace, [op |-> op, args |-> args])
  /\ before' = heap[matrix_]

\* The constructor.
Init ==
  /\ heap = (1 :> createIdentityMatrix(4))
  /\ nextId = 2
  /\ matrix_ = 1
  /\ matrix = << >>
  /\ handle = << >>
  /\ inverse = << >>
  /\ trace = << >>
  /\ before = createIdentityMatrix(4)
  /\ snapshot = << >>

\* A getStandardMatrix that returns a copy of the matrix.
getStandardMatrixCopy ==
  /\ Called("getStandardMatrix", << >>)
  /\ handle' = <<nextId>>
  /\ nextId' = nextId + 1
  /\ snapshot' = heap[matrix_]
  /\ heap' = Allocate(nextId :> heap[matrix_], {nextId, matrix_} \cup Range(matrix))
  /\ UNCHANGED <<matrix_, matrix, inverse>>

getStandardMatrix ==
  /\ Called("getStandardMatrix", << >>)
  /\ handle' = <<matrix_>>
  /\ snapshot' = heap[matrix_]
  /\ heap' = Allocate(<< >>, {matrix_} \cup Range(matrix))
  /\ UNCHANGED <<nextId, matrix_, matrix, inverse>>

loadIdentity ==
  /\ Called("loadIdentity", << >>)
  /\ assign_matrix_(loadedIdentity(heap[matrix_]))
  /\ UNCHANGED <<matrix, handle, inverse, snapshot>>

translate(x, y, z) ==
  /\ Called("translate", <<x, y, z>>)
  /\ assign_matrix_(translated(heap[matrix_], x, y, z))
  /\ UNCHANGED <<matrix, handle, inverse, snapshot>>

scale(x, y, z) ==
  /\ Called("scale", <<x, y, z>>)
  /\ assign_matrix_(scaled(heap[matrix_], x, y, z))
  /\ UNCHANGED <<matrix, handle, inverse, snapshot>>

rotate(angle, x, y, z) ==
  /\ Called("rotate", <<angle, x, y, z>>)
  /\ assign_matrix_(rotated(heap[matrix_], angle, x, y, z))
  /\ UNCHANGED <<matrix, handle, inverse, snapshot>>

rotate010(angle) ==
  /\ Called("rotate010", <<angle>>)
  /\ assign_matrix_(rotated010(heap[matrix_], angle))
  /\ UNCHANGED <<matrix, handle, inverse, snapshot>>

rotate100(angle) ==
  /\ Called("rotate100", <<angle>>)
  /\ assign_matrix_(rotated100(heap[matrix_], angle))
  /\ UNCHANGED <<matrix, handle, inverse, snapshot>>

rotate001(angle) ==
  /\ Called("rotate001", <<angle>>)
  /\ assign_matrix_(rotated001(heap[matrix_], angle))
  /\ UNCHANGED <<matrix, handle, inverse, snapshot>>

\* this.matrix = this.matrix_.multiply(O); this.translate(-eye.x, -eye.y, -eye.z)
lookAt(eye, center, up) ==
  /\ Called("lookAt", <<eye, center, up>>)
  /\ matrix' = <<nextId>>
  /\ matrix_' = nextId + 1
  /\ nextId' = nextId + 2
  /\ heap' = Allocate((nextId :> lookAtMatrix(heap[matrix_], eye, center, up))
                        @@ ((nextId + 1) :> lookedAt(heap[matrix_], eye, center, up)),
                      {nextId, nextId + 1} \cup Range(handle))
  /\ UNCHANGED <<handle, inverse, snapshot>>

getInverseMat3 ==
  /\ Called("getInverseMat3", << >>)
  /\ inverse' = inverseMat3(heap[matrix_])
  /\ UNCHANGED <<heap, nextId, matrix_, matrix, handle, snapshot>>

Next ==
  \/ getStandardMatrix
  \/ loadIdentity
  \/ \E v \in TranslateArgs : translate(v[1], v[2], v[3])
  \/ \E v \in ScaleArgs : scale(v[1], v[2], v[3])
  \/ \E a \in RotateArgs : rotate(a[1], a[2][1], a[2][2], a[2][3])
  \/ \E angle \in Angles : rotate010(angle)
  \/ \E angle \in Angles : rotate100(angle)
  \/ \E angle \in Angles : rotate001(angle)
  \/ \E a \in LookAtArgs : lookAt(a[1], a[2], a[3])
  \/ getInverseMat3

Spec == Init /\ [][Next]_vars

----------------------------------------------------------------------------
(* What the properties below speak about.                                  *)

I4 == createIdentityMatrix(4)
I3 == createIdentityMatrix(3)

\* The matrix getStandardMatrix returns and every operation reads.
Current == heap[matrix_]

LastCall == trace[Len(trace)]
Made(op) == trace # << >> /\ LastCall.op = op

CompositionOps ==
  {"translate", "scale", "rotate", "rotate010", "rotate100", "rotate001", "lookAt"}

\* T(-eye) of a lookAt call.
TMinusEye(eye) == translationMatrix(RNeg(eye[1]), RNeg(eye[2]), RNeg(eye[3]))

\* The operation matrix a composition call stands for in the specification.
OpMatrix(call) ==
  LET a == call.args IN
  CASE call.op = "translate" -> translationMatrix(a[1], a[2], a[3])
    [] call.op = "scale" -> scaleMatrix(a[1], a[2], a[3])
    [] call.op = "rotate" ->
         rotationMatrix(MathCos(a[1]), MathSin(a[1]), a[2], a[3], a[4])
    [] call.op = "rotate010" -> rotation010Matrix(MathCos(a[1]), MathSin(a[1]))
    [] call.op = "rotate100" -> rotation100Matrix(MathCos(a[1]), MathSin(a[1]))
    [] call.op = "rotate001" -> rotation001Matrix(MathCos(a[1]), MathSin(a[1]))
    [] call.op = "lookAt" ->
         multiply(orientationMatrix(a[1], a[2], a[3]), TMinusEye(a[1]))

\* I x Op1 x ... x OpN, multiplied from the left in call order.
RECURSIVE Product(_)
Product(calls) ==
  IF calls = << >> THEN I4
  ELSE multiply(Product(SubSeq(calls, 1, Len(calls) - 1)), OpMatrix(calls[Len(calls)]))

\* The matrix an instance holding M holds after the call.
Apply(M, call) ==
  LET a == call.args IN
  CASE call.op = "translate" -> translated(M, a[1], a[2], a[3])
    [] call.op = "scale" -> scaled(M, a[1], a[2], a[3])
    [] call.op = "rotate" -> rotated(M, a[1], a[2], a[3], a[4])
    [] call.op = "rotate010" -> rotated010(M, a[1])
    [] call.op = "rotate100" -> rotated100(M, a[1])
    [] call.op = "rotate001" -> rotated001(M, a[1])
    [] call.op = "lookAt" -> lookedAt(M, a[1], a[2], a[3])
    [] call.op = "loadIdentity" -> loadedIdentity(M)
    [] OTHER -> M

\* The matrix a newly constructed instance holds after the calls.
RECURSIVE OnFresh(_)
OnFresh(calls) ==
  IF calls = << >> THEN I4
  ELSE Apply(OnFresh(SubSeq(calls, 1, Len(calls) - 1)), calls[Len(calls)])

\* The calls made after call number k.
After(k) == SubSeq(trace, k + 1, Len(trace))

\* Rows 0-2, columns 0-2 of a 4x4 matrix.
Block(M) == << <<M[1][1], M[1][2], M[1][3]>>,
               <<M[2][1], M[2][2], M[2][3]>>,
               <<M[3][1], M[3][2], M[3][3]>> >>

\* M with its translation column replaced by t.
WithTranslation(M, t) ==
  [i \in 1..4 |-> [j \in 1..4 |-> IF j = 4 /\ i < 4 THEN t[i] ELSE M[i][j]]]

\* Exact cosine/sine pairs on the unit circle.
UnitCircle ==
  {<<R(1), R(0)>>, <<R(0), R(1)>>, <<R(-1), R(0)>>, <<R(0), R(-1)>>,
   <<Q(3, 5), Q(4, 5)>>, <<Q(-3, 5), Q(4, 5)>>, <<Q(3, 5), Q(-4, 5)>>,
   <<Q(-3, 5), Q(-4, 5)>>, <<Q(4, 5), Q(3, 5)>>, <<Q(-4, 5), Q(3, 5)>>,
   <<Q(4, 5), Q(-3, 5)>>, <<Q(-4, 5), Q(-3, 5)>>, <<Q(5, 13), Q(12, 13)>>}

----------------------------------------------------------------------------
(* The properties.                                                         *)

\* C1: after lookAt(eye, center, up) on an instance holding M, matrix_ holds
\* (M x O) x T(-eye), O being the orientation matrix with rows side, up',
\* -forward.
C1_LookAtComposesOrientation ==
  Made("lookAt") =>
    Current = multiply(multiply(before, orientationMatrix(LastCall.args[1],
                                          LastCall.args[2], LastCall.args[3])),
                       TMinusEye(LastCall.args[1]))

\* C2: translate(x, y, z) on an instance holding M stores M x T(x,y,z): the
\* first three columns of M are kept (so its upper-left 3x3 block is), the
\* last column becomes M applied to (x, y, z, 1); from the identity,
\* translate(1,2,3) gives last column [1,2,3,1] and an identity block.
C2_TranslateRightMultiplies ==
  Made("translate") =>
    LET t == LastCall.args
        M == before
        N == Current
    IN  /\ Len(N) = 4
        /\ \A i \in 1..4 :
             /\ Len(N[i]) = 4
             /\ \A j \in 1..3 : N[i][j] = M[i][j]
             /\ N[i][4] = RAdd(RAdd(RAdd(RMul(M[i][1], t[1]), RMul(M[i][2], t[2])),
                                    RMul(M[i][3], t[3])), M[i][4])
        /\ (M = I4 /\ t = Vec(1, 2, 3)) =>
             /\ <<N[1][4], N[2][4], N[3][4], N[4][4]>> = <<R(1), R(2), R(3), R(1)>>
             /\ Block(N) = I3

\* C2 happens: a translate on a matrix whose block is no longer the identity,
\* where M x T and T x M differ.
C2_Witness ==
  /\ Made("translate")
  /\ Block(before) # I3
  /\ Current # multiply(translationMatrix(LastCall.args[1], LastCall.args[2],
                                          LastCall.args[3]), before)

\* C3: scale(x, y, z) on an instance holding M stores M x diag(x,y,z,1):
\* column j of M is multiplied by the j-th factor and the last column is
\* kept; from the identity, scale(2,3,4) gives diag(2,3,4,1).
C3_ScaleRightMultiplies ==
  Made("scale") =>
    LET f == LastCall.args
        M == before
        N == Current
    IN  /\ Len(N) = 4
        /\ \A i \in 1..4 :
             /\ Len(N[i]) = 4
             /\ \A j \in 1..3 : N[i][j] = RMul(M[i][j], f[j])
             /\ N[i][4] = M[i][4]
        /\ (M = I4 /\ f = Vec(2, 3, 4)) =>
             N = << <<R(2), R(0), R(0), R(0)>>, <<R(0), R(3), R(0), R(0)>>,
                    <<R(0), R(0), R(4), R(0)>>, <<R(0), R(0), R(0), R(1)>> >>

\* C3 happens: a scale on a matrix that carries a translation, which a
\* left-multiplication would scale.
C3_Witness ==
  /\ Made("scale")
  /\ <<before[1][4], before[2][4], before[3][4]>> # Vec(0, 0, 0)
  /\ Current # multiply(scaleMatrix(LastCall.args[1], LastCall.args[2],
                                    LastCall.args[3]), before)

\* C4: after composition calls op1, ..., opN on a fresh instance the stored
\* matrix is I x Op1 x ... x OpN in call order.
C4_ProductInCallOrder ==
  (\A k \in 1..Len(trace) : trace[k].op \in CompositionOps) =>
    Current = Product(trace)

\* The same for the sequences of composition calls without a lookAt: the
\* stored matrix is the product in call order, and translate(1,0,0) then
\* scale(2,2,2) differs from scale(2,2,2) then translate(1,0,0).
ProductInCallOrderWithoutLookAt ==
  (\A k \in 1..Len(trace) : trace[k].op \in CompositionOps \ {"lookAt"}) =>
    /\ Current = Product(trace)
    /\ (Len(trace) = 2 /\ trace[1].op = "translate" /\ trace[1].args = Vec(1, 0, 0)
          /\ trace[2].op = "scale" /\ trace[2].args = Vec(2, 2, 2)) =>
         <<Current[1][4], Current[2][4], Current[3][4]>> = Vec(1, 0, 0)
    /\ (Len(trace) = 2 /\ trace[1].op = "scale" /\ trace[1].args = Vec(2, 2, 2)
          /\ trace[2].op = "translate" /\ trace[2].args = Vec(1, 0, 0)) =>
         <<Current[1][4], Current[2][4], Current[3][4]>> = Vec(2, 0, 0)

\* C5: after any calls, loadIdentity leaves exactly the 4x4 identity, the
\* matrix of a new instance, and the instance then behaves as a fresh one:
\* its matrix, and the inverse getInverseMat3 returns, are those of a new
\* instance on which only the calls after the loadIdentity were made.
C5_LoadIdentityResets ==
  \A k \in 1..Len(trace) :
    trace[k].op = "loadIdentity" =>
      /\ Current = OnFresh(After(k))
      /\ k = Len(trace) => Current = I4
      /\ (k < Len(trace) /\ Made("getInverseMat3")) =>
           inverse = inverseMat3(OnFresh(After(k)))

\* C5 happens: a lookAt and another composition, then loadIdentity, then a
\* composition on the reset instance.
C5_Witness ==
  /\ Len(trace) >= 3
  /\ \E k \in 2..(Len(trace) - 1) :
       /\ trace[k].op = "loadIdentity"
       /\ \E h \in 1..(k - 1) : trace[h].op = "lookAt"
       /\ trace[Len(trace)].op \in CompositionOps
  /\ matrix # << >>
  /\ Current # I4

\* C6: each axis rotation composes the matrix the general rotation composes
\* with that unit axis, for every stored matrix and angle, and the general
\* operation matrix with the unit axis put in is cell for cell the special
\* one, for every cosine/sine pair.
C6_AxisRotationsAreRotate ==
  /\ Made("rotate010") =>
       Current = rotated(before, LastCall.args[1], R(0), R(1), R(0))
  /\ Made("rotate100") =>
       Current = rotated(before, LastCall.args[1], R(1), R(0), R(0))
  /\ Made("rotate001") =>
       Current = rotated(before, LastCall.args[1], R(0), R(0), R(1))
  /\ (Made("rotate") /\ <<LastCall.args[2], LastCall.args[3], LastCall.args[4]>> \in UnitAxes) =>
       Current = (CASE LastCall.args[3] = R(1) -> rotated010(before, LastCall.args[1])
                    [] LastCall.args[2] = R(1) -> rotated100(before, LastCall.args[1])
                    [] LastCall.args[4] = R(1) -> rotated001(before, LastCall.args[1]))
  /\ trace = << >> =>  \* a fact about the operation matrices, not the state
     \A cs \in UnitCircle :
       /\ rotationMatrix(cs[1], cs[2], R(0), R(1), R(0)) = rotation010Matrix(cs[1], cs[2])
       /\ rotationMatrix(cs[1], cs[2], R(1), R(0), R(0)) = rotation100Matrix(cs[1], cs[2])
       /\ rotationMatrix(cs[1], cs[2], R(0), R(0), R(1)) = rotation001Matrix(cs[1], cs[2])

\* C6 happens: rotate010 by an angle that is no multiple of a quarter turn,
\* on a matrix that is not the identity.
C6_Witness ==
  /\ Made("rotate010")
  /\ LastCall.args[1] = "atan(4/3)"
  /\ before # I4
  /\ Current # before

\* C7: getInverseMat3 returns the inverse of rows 0-2, columns 0-2 of the
\* current matrix: when that block is invertible, block x result is the 3x3
\* identity; the result does not depend on the translation column; the
\* stored matrix is left as it was.
C7_InverseOfBlock ==
  Made("getInverseMat3") =>
    /\ Current = before
    /\ Det3(Block(Current))[1] # 0 =>
         /\ Len(inverse) = 3
         /\ multiply(Block(Current), inverse) = I3
    /\ \A t \in TranslateArgs \cup {Vec(0, 0, 0)} :
         inverseMat3(WithTranslation(Current, t)) = inverse

\* C7 happens: identity, scale(2,2,2), rotate001, getInverseMat3, and also on
\* a matrix that carries a translation.
C7_Witness ==
  /\ Made("getInverseMat3")
  /\ Len(trace) = 3
  /\ trace[1].op = "scale" /\ trace[1].args = Vec(2, 2, 2)
  /\ trace[2].op = "rotate001" /\ trace[2].args[1] = "atan(4/3)"
  /\ Len(inverse) = 3
  /\ inverse # Block(Current)

\* C8 as stated: a handle obtained from getStandardMatrix shows, after any
\* later call, the values a new getStandardMatrix call shows.
C8_HandleIsLive ==
  handle # << >> => heap[handle[1]] = Current

\* C8 as the code has it: getStandardMatrix returns the very object matrix_
\* refers to, not a copy; no call changes that object; and every composition
\* and loadIdentity puts a new object in matrix_, so that the handle keeps
\* the values it had when it was returned.
C8_HandleIsSnapshot ==
  /\ Made("getStandardMatrix") => handle = <<matrix_>>
  /\ handle # << >> =>
       /\ handle[1] \in DOMAIN heap
       /\ heap[handle[1]] = snapshot
  /\ (handle # << >> /\ trace # << >>
        /\ LastCall.op \in CompositionOps \cup {"loadIdentity"}) =>
       handle[1] # matrix_

\* C8 happens: a handle was returned, a later translate changed the matrix,
\* and the handle shows the old values.
C8_Witness ==
  /\ handle # << >>
  /\ Made("translate")
  /\ heap[handle[1]] # Current
  /\ heap[handle[1]] = before

\* C9: the stored matrix is always 4 rows by 4 columns.
C9_FourByFour ==
  /\ Len(Current) = 4
  /\ \A i \in 1..4 : Len(Current[i]) = 4

\* C9 happens: a lookAt ran and other calls with it, getInverseMat3 and
\* loadIdentity among them.
C9_Witness ==
  /\ Len(trace) >= 3
  /\ \E k \in 1..Len(trace) : trace[k].op = "lookAt"
  /\ \E k \in 1..Len(trace) : trace[k].op \in {"getInverseMat3", "loadIdentity"}
  /\ Len(Current) = 4

\* C10: the last row of the stored matrix is always [0, 0, 0, 1].
C10_LastRowAffine ==
  Current[4] = <<R(0), R(0), R(0), R(1)>>

\* C10 happens: a translation, then a rotation about an axis that is no
\* coordinate axis, so that every other row is full.
C10_Witness ==
  /\ Made("rotate")
  /\ \A i \in 1..3 : \A j \in 1..4 : Current[i][j] # R(0)
  /\ Current[4] = <<R(0), R(0), R(0), R(1)>>

====
